---- MODULE Spec2Model ----
(***************************************************************************)
(* Inventory ledger of inv-manager: the product controller               *)
(* (createProduct, updateProduct, deleteProduct, adjustStock, and the     *)
(* reads getProduct and getAllProducts), the request validation of         *)
(* routes/products.js and the Sequelize models Product and Transaction,    *)
(* on top of one PostgreSQL store shared by all request handlers.          *)
(*                                                                         *)
(* Every `await` of a handler is a point where other handlers may run, so  *)
(* each database statement of a handler is one atomic step of the model.   *)
(***************************************************************************)
EXTENDS Integers, Sequences, FiniteSets, Bags, TLC

\* ------------------------------------------------------------------ bounds
MaxProducts == 1   \* rows that createProduct may insert
MaxCalls    == 2   \* adjustStock requests received, all of which may overlap
MaxScenario == 3   \* adjustStock requests of a scenario, one after the other
MaxHistory  == 11  \* adjustStock requests before the history is read
MaxListed   == 11  \* rows that createProduct may insert before a listing
MaxPair     == 2   \* rows that createProduct may insert before adjustments overlap
MaxPaged    == 3   \* rows that createProduct may insert before the pages are read
MaxLimit    == 3   \* the largest page size and page number of a query
MaxRequests == 2   \* requests on their way through the middleware at a time
MaxSku      == 3   \* rows that createProduct may insert with chosen SKUs

\* getProduct: `limit: 10` of the included transactions
HistoryLimit == 10
\* paginate: `limit = 10`
DefaultLimit == 10
\* createProduct: `minStockLevel || 10`
DefaultMinStockLevel == 10

\* PostgreSQL INTEGER column (DataTypes.INTEGER): 32-bit signed
PgIntMax == 2147483647

\* ------------------------------------------------- JSON / JavaScript values
\* A request body field is a JSON number, a JSON string or absent.  A string
\* is kept as an optional minus sign and its decimal digits; "junk" is any
\* string that is not a decimal integer (such as "10-5").
Num(n)      == [t |-> "num",   neg |-> FALSE, digits |-> <<>>, n |-> n]
Str(neg, d) == [t |-> "str",   neg |-> neg,   digits |-> d,    n |-> 0]
Junk        == [t |-> "junk",  neg |-> FALSE, digits |-> <<>>, n |-> 0]
Undef       == [t |-> "undef", neg |-> FALSE, digits |-> <<>>, n |-> 0]

RECURSIVE DigitsValue(_)
\* value of a sequence of decimal digits, leading zeroes allowed
DigitsValue(d) ==
    IF d = <<>> THEN 0
    ELSE DigitsValue(SubSeq(d, 1, Len(d) - 1)) * 10 + d[Len(d)]

RECURSIVE DigitsOf(_)
\* String(n) of a non-negative integer, as its digits
DigitsOf(n) ==
    IF n < 10 THEN <<n>> ELSE DigitsOf(n \div 10) \o <<n % 10>>

\* Number(x) for a number or a decimal-integer string
ToNumber(x) ==
    IF x.t = "num" THEN x.n
    ELSE IF x.neg THEN 0 - DigitsValue(x.digits) ELSE DigitsValue(x.digits)

\* JavaScript `previousStock + quantity`: arithmetic on a number, string
\* concatenation on a string
JsAdd(prev, q) ==
    IF q.t = "num" THEN Num(prev + q.n)
    ELSE IF q.neg THEN Junk
    ELSE Str(FALSE, DigitsOf(prev) \o q.digits)

\* JavaScript `x < 0` and `x > 0` (NaN compares false; undefined is NaN)
JsLtZero(x) == x.t \in {"num", "str"} /\ ToNumber(x) < 0
JsGtZero(x) == x.t \in {"num", "str"} /\ ToNumber(x) > 0

\* JavaScript truthiness of a body field (a non-empty string is truthy)
Truthy(x) == x.t \in {"str", "junk"} \/ (x.t = "num" /\ x.n # 0)

\* Math.abs(x)
MathAbs(x) == IF ToNumber(x) < 0 THEN 0 - ToNumber(x) ELSE ToNumber(x)

\* ------------------------------------------------------------------ helpers
\* a name is the sequence of its characters
toUpperCase(c) ==
    CASE c = "b" -> "B" [] c = "o" -> "O" [] c = "l" -> "L" [] c = "t" -> "T"
      [] c = "e" -> "E" [] c = "n" -> "N" [] c = "u" -> "U" [] OTHER -> c

RECURSIVE Join(_)
\* the string of a sequence of characters
Join(cs) == IF cs = <<>> THEN "" ELSE cs[1] \o Join(Tail(cs))

\* name.substring(0, 3).toUpperCase()
Prefix(name) ==
    Join([i \in 1..(IF Len(name) < 3 THEN Len(name) ELSE 3) |->
            toUpperCase(name[i])])

\* Date.now().toString().slice(-6)
Stamp(now) ==
    LET d == DigitsOf(now)
        k == IF Len(d) < 6 THEN 1 ELSE Len(d) - 5
    IN  Join([i \in 1..(Len(d) - k + 1) |-> ToString(d[k + i - 1])])

generateSKU(categoryName, productName, now) ==
    Prefix(categoryName) \o "-" \o Prefix(productName) \o "-" \o Stamp(now)

\* the seeded category 1, 'Electronics'; `category?.name || 'GEN'`
CategoryName(categoryId) ==
    IF categoryId = 1
    THEN <<"E", "l", "e", "c", "t", "r", "o", "n", "i", "c", "s">>
    ELSE <<"G", "E", "N">>

\* ------------------------------------------------------ request validation
\* express-validator isInt(): the value, as a string, is a decimal integer
IsInt(x) == x.t \in {"num", "str"}
\* isInt({ min })
IsIntMin(x, min) == IsInt(x) /\ ToNumber(x) >= min
\* .custom(value => value !== 0): strict inequality with the number 0
NotStrictlyZero(x) == ~(x.t = "num" /\ x.n = 0)

\* .notEmpty() on the raw value, then the .trim() sanitizer
NotEmpty(s) == s # ""
Trim(s) == IF s = " " THEN "" ELSE s

stockAdjustmentValidation(body) ==
    /\ IsInt(body.quantity)
    /\ NotStrictlyZero(body.quantity)
    /\ NotEmpty(body.reason)

\* body('name').notEmpty(), body('price').isFloat({ min: 0 }) on a price in
\* cents, body('categoryId').isInt({ min: 1 }),
\* body('stockQuantity').optional().isInt({ min: 0 }),
\* body('minStockLevel').optional().isInt({ min: 0 })
productValidation(body) ==
    /\ body.name # <<>>
    /\ IsIntMin(body.price, 0)
    /\ body.categoryId >= 1
    /\ body.stockQuantity.t = "undef" \/ IsIntMin(body.stockQuantity, 0)
    /\ body.minStockLevel.t = "undef" \/ IsIntMin(body.minStockLevel, 0)

\* ------------------------------------------------------------- the models
\* value stored in an INTEGER column for a bound parameter
PgAccepts(x) ==
    /\ x.t \in {"num", "str"}
    /\ ToNumber(x) <= PgIntMax
    /\ ToNumber(x) >= 0 - PgIntMax - 1
PgInteger(x) == ToNumber(x)

\* Product.stockQuantity validate: { min: 0 }; Sequelize's min parses the
\* leading number of the value and lets a value without one pass
ProductStockMin(x) == x.t = "junk" \/ ToNumber(x) >= 0

\* Transaction.quantity validate: notZero
notZero(value) == value # 0


\* ---------------------------------------------------------- request bodies
\* quantity of an adjust-stock body: JSON numbers, and the same integers
\* written as JSON strings
NumberQuantities == {Num(0 - 5), Num(3), Num(0)}
StringQuantities == {Str(FALSE, <<0>>), Str(FALSE, <<5>>), Str(TRUE, <<5>>)}
ReasonInputs     == {"recount"}

NumberAdjustBodies ==
    [quantity : NumberQuantities, reason : {"recount"}]
AdjustBodies ==
    [quantity : NumberQuantities \cup StringQuantities, reason : ReasonInputs]

\* the adjust-stock bodies sent while updateProduct runs too: the JSON
\* numbers, and the strings "0" and "-5"
StoreAdjustBodies ==
    [quantity : NumberQuantities \cup {Str(FALSE, <<0>>), Str(TRUE, <<5>>)},
     reason : ReasonInputs]

\* adjust-stock bodies whose reason may be empty or a single space
BlankReasons == {"", " "}
ReasonAdjustBodies ==
    [quantity : {Num(0 - 5), Num(3)}, reason : ReasonInputs \cup BlankReasons]

\* adjust-stock bodies that pass the request validation
CatalogAdjustBodies ==
    [quantity : {Num(0 - 5), Num(3)}, reason : ReasonInputs]

\* the adjust-stock bodies of the scenario: -7, -5 and +20
ScenarioAdjustBodies ==
    [quantity : {Num(0 - 7), Num(0 - 5), Num(20)}, reason : ReasonInputs]

\* a string field that the body does not have, and a NULL column
Absent == "undefined"
Null   == "NULL"

\* a product body with the required fields only: name "bolt", price 2.50 (in
\* cents), category 1; isActive is "absent", "true" or "false"
BaseBody ==
    [stockQuantity |-> Undef, minStockLevel |-> Undef, isActive |-> "absent",
     price |-> Num(250), categoryId |-> 1, name |-> <<"b", "o", "l", "t">>,
     sku |-> Absent, barcode |-> Absent]

\* stockQuantity of a product body
StockInputs == {Undef, Num(10), Str(FALSE, <<0>>), Num(0 - 1)}
ProductBodies == {[BaseBody EXCEPT !.stockQuantity = sq] : sq \in StockInputs}

\* the product bodies that have a field for updateProduct to write
UpdateBodies == {body \in ProductBodies : body.stockQuantity # Undef}

\* product bodies that also set the minimum stock level
CatalogBodies ==
    {BaseBody,
     [BaseBody EXCEPT !.stockQuantity = Num(10), !.minStockLevel = Num(5)]}

\* product bodies with and without a minimum level, zero included
LevelBodies ==
    {[BaseBody EXCEPT !.stockQuantity = sq, !.minStockLevel = msl] :
        sq \in {Undef, Num(3)}, msl \in {Undef, Num(0), Num(5)}}

\* updateProduct bodies with and without the isActive field
FlagBodies ==
    {[body EXCEPT !.isActive = flag] :
        body \in CatalogBodies, flag \in {"absent", "false", "true"}}

\* product bodies with and without an sku and a barcode; the sku is one that
\* generateSKU does not produce
SkuBodies ==
    {[BaseBody EXCEPT !.stockQuantity = Num(10), !.sku = sku, !.barcode = bc] :
        sku \in {Absent, "", "BOLT-1"}, bc \in {Absent, "4006381"}}

\* the values of Date.now() at the requests: the first and the last end in
\* the same six digits
Times == {1000001, 1000002, 2000001}

\* the product body of products adjusted side by side: stock 10
PairBody == [BaseBody EXCEPT !.stockQuantity = Num(10), !.minStockLevel = Num(5)]

\* product bodies of two names, one with stock and one without
PagedBodies ==
    {[BaseBody EXCEPT !.stockQuantity = Num(10)],
     [BaseBody EXCEPT !.name = <<"n", "u", "t">>]}

\* the product body of a listing: stock 10, so one initial movement
ListingBodies == {[BaseBody EXCEPT !.stockQuantity = Num(10)]}

\* ------------------------------------------------------------------- state
VARIABLES
    products,      \* table Products: row id -> [stockQuantity,
                   \* minStockLevel, isActive, price, sku, barcode]
    transactions,  \* table Transactions: productId -> the rows of that
                   \* product in insert order (Product.hasMany)
    creating,      \* the createProduct handler in flight, if any
    handlers,      \* the adjustStock handlers in flight (a bag): the
                   \* position and the locals of each
    received,      \* adjustStock requests received so far
    response,      \* the adjustStock response sent last, with its request
    requests       \* the requests on their way through the middleware of
                   \* their route (a bag): the route, the position in its
                   \* chain and the middleware that called next()

vars ==
    <<products, transactions, creating, handlers, received, response, requests>>

ProductIds == 1..Len(products)

\* Date.now() of a request that arrives in a millisecond of its own
LaterStamp == Len(products) + 1

\* status: the HTTP status of the createProduct response sent last (0: none)
NoCreate == [pc |-> "idle", id |-> 0, stockQuantity |-> Undef, status |-> 0]
Created(status) == [NoCreate EXCEPT !.status = status]

\* the handlers in flight, and h moved on to h2 or returned
InFlight == BagToSet(handlers)
Step(h, h2) == (handlers (-) SetToBag({h})) (+) SetToBag({h2})
Return(h)   == handlers (-) SetToBag({h})

\* res: the response (200 "ok", 400 "validation", 404 "notFound",
\* 400 "insufficientStock", 500 "serverError"); quantity: the quantity of the
\* request; previousStock: the stock the handler read, if it read one;
\* newStock: the field of that name in the body of a 200 response
Response(res, quantity, previousStock) ==
    [res |-> res, quantity |-> quantity, previousStock |-> previousStock,
     newStock |-> Undef]
\* `adjustment: quantity` in the body of a 200 response
adjustment(r) == r.quantity
NoResponse == Response("none", Undef, 0)

\* the HTTP status adjustStock sends with each response
StatusOf(res) ==
    CASE res = "ok"                -> 200
      [] res = "validation"        -> 400
      [] res = "notFound"          -> 404
      [] res = "insufficientStock" -> 400
      [] res = "serverError"       -> 500
      [] OTHER                     -> 0

\* the store after migrate and seed, with room for `rows` products
InitRows(rows) ==
    /\ products = <<>>
    /\ transactions = [id \in 1..rows |-> <<>>]
    /\ creating = NoCreate
    /\ handlers = EmptyBag
    /\ received = 0
    /\ response = NoResponse
    /\ requests = EmptyBag

Init ==
    /\ products = <<>>
    /\ transactions = [id \in 1..MaxProducts |-> <<>>]
    /\ creating = NoCreate
    /\ handlers = EmptyBag
    /\ received = 0
    /\ response = NoResponse
    /\ requests = EmptyBag

\* ----------------------------------------------------------- createProduct
\* the unique constraints of Products: sku, and barcode where it is not NULL
UniqueViolation(rows, sku, barcode) ==
    \E id \in 1..Len(rows) :
        \/ rows[id].sku = sku
        \/ barcode # Null /\ rows[id].barcode = barcode

\* createProductInsert as it would be on a Products table without the unique
\* indexes on sku and barcode
createProductInsertNoIndex(body, now) ==
    /\ creating.pc = "idle"
    /\ Len(products) < Len(transactions)
    /\ productValidation(body)
    /\ LET sq == IF Truthy(body.stockQuantity) THEN body.stockQuantity ELSE Num(0)
           ml == IF Truthy(body.minStockLevel) THEN body.minStockLevel
                 ELSE Num(DefaultMinStockLevel)
           sku == IF body.sku \in {Absent, ""}
                  THEN generateSKU(CategoryName(body.categoryId), body.name, now)
                  ELSE body.sku
           barcode == IF body.barcode = Absent THEN Null ELSE body.barcode
       IN  /\ ProductStockMin(sq)
           /\ PgAccepts(sq)
           /\ ProductStockMin(ml)
           /\ PgAccepts(ml)
           /\ products' = Append(products,
                 [stockQuantity |-> PgInteger(sq),
                  minStockLevel |-> PgInteger(ml),
                  isActive      |-> TRUE,
                  price         |-> ToNumber(body.price),
                  sku           |-> sku,
                  barcode       |-> barcode,
                  createdAt     |-> now])
           /\ creating' =
                IF JsGtZero(body.stockQuantity)
                THEN [pc |-> "transaction", id |-> Len(products) + 1,
                      stockQuantity |-> body.stockQuantity,
                      status |-> 0]
                ELSE Created(201)
    /\ UNCHANGED <<transactions, handlers, received, response, requests>>

\* the request up to Product.create(...) at time `now` (Date.now()): the row
\* is inserted with `stockQuantity || 0` and `minStockLevel || 10` and the
\* sku of the body or a generated one; a unique constraint error is answered
\* 400
createProductInsert(body, now) ==
    /\ creating.pc = "idle"
    /\ Len(products) < Len(transactions)
    /\ productValidation(body)
    /\ LET sq == IF Truthy(body.stockQuantity) THEN body.stockQuantity ELSE Num(0)
           ml == IF Truthy(body.minStockLevel) THEN body.minStockLevel
                 ELSE Num(DefaultMinStockLevel)
           sku == IF body.sku \in {Absent, ""}
                  THEN generateSKU(CategoryName(body.categoryId), body.name, now)
                  ELSE body.sku
           barcode == IF body.barcode = Absent THEN Null ELSE body.barcode
       IN  /\ ProductStockMin(sq)
           /\ PgAccepts(sq)
           /\ ProductStockMin(ml)
           /\ PgAccepts(ml)
           /\ IF UniqueViolation(products, sku, barcode)
              THEN /\ creating' = Created(400)
                   /\ UNCHANGED products
              ELSE /\ products' = Append(products,
                         [stockQuantity |-> PgInteger(sq),
                          minStockLevel |-> PgInteger(ml),
                          isActive      |-> TRUE,
                          price         |-> ToNumber(body.price),
                          sku           |-> sku,
                          barcode       |-> barcode,
                          createdAt     |-> now])
                   /\ creating' =
                        IF JsGtZero(body.stockQuantity)
                        THEN [pc |-> "transaction", id |-> Len(products) + 1,
                              stockQuantity |-> body.stockQuantity,
                              status |-> 0]
                        ELSE Created(201)
    /\ UNCHANGED <<transactions, handlers, received, response, requests>>

\* createProductTransaction as it would be with the initial movement starting
\* from the stock of the new product
createProductTransactionFromStock ==
    /\ creating.pc = "transaction"
    /\ notZero(PgInteger(creating.stockQuantity))
    /\ transactions' = [transactions EXCEPT ![creating.id] = Append(@,
         [type          |-> "in",
          quantity      |-> PgInteger(creating.stockQuantity),
          previousStock |-> products[creating.id].stockQuantity,
          newStock      |-> PgInteger(creating.stockQuantity),
          reason        |-> "Initial stock"])]
    /\ creating' = Created(201)
    /\ UNCHANGED <<products, handlers, received, response, requests>>

\* Transaction.create(...) of the initial stock, `if (stockQuantity > 0)`
createProductTransaction ==
    /\ creating.pc = "transaction"
    /\ notZero(PgInteger(creating.stockQuantity))
    /\ transactions' = [transactions EXCEPT ![creating.id] = Append(@,
         [type          |-> "in",
          quantity      |-> PgInteger(creating.stockQuantity),
          previousStock |-> 0,
          newStock      |-> PgInteger(creating.stockQuantity),
          reason        |-> "Initial stock"])]
    /\ creating' = Created(201)
    /\ UNCHANGED <<products, handlers, received, response, requests>>

\* ----------------------------------------------------------- updateProduct
\* the value product.update writes to an INTEGER column: the field of the
\* body if the body has it, else the value the row holds
Written(field, old) == IF field.t = "undef" THEN old ELSE PgInteger(field)
Writable(field) ==
    field.t = "undef" \/ (ProductStockMin(field) /\ PgAccepts(field))

\* the value product.update writes to a STRING or BOOLEAN column
WrittenString(field, old) == IF field = Absent THEN old ELSE field
WrittenBoolean(field, old) == IF field = "absent" THEN old ELSE field = "true"

\* product.update(req.body): every field of the body is written
updateProduct(id, body) ==
    /\ productValidation(body)
    /\ id \in ProductIds
    /\ Writable(body.stockQuantity)
    /\ Writable(body.minStockLevel)
    /\ ~\E other \in ProductIds \ {id} :
           \/ body.sku # Absent /\ products[other].sku = body.sku
           \/ body.barcode # Absent /\ products[other].barcode = body.barcode
    /\ products' = [products EXCEPT
                      ![id].stockQuantity = Written(body.stockQuantity, @),
                      ![id].minStockLevel = Written(body.minStockLevel, @),
                      ![id].isActive      = WrittenBoolean(body.isActive, @),
                      ![id].price         = Written(body.price, @),
                      ![id].sku           = WrittenString(body.sku, @),
                      ![id].barcode       = WrittenString(body.barcode, @)]
    /\ UNCHANGED <<transactions, creating, handlers, received, response, requests>>

\* ----------------------------------------------------------- deleteProduct
\* deleteProduct as it would be with product.destroy() and the movements
\* removed with their product
deleteProductDestroy(id) ==
    /\ id \in ProductIds
    /\ products' = [products EXCEPT ![id].isActive = FALSE]
    /\ transactions' = [transactions EXCEPT ![id] = <<>>]
    /\ UNCHANGED <<creating, handlers, received, response, requests>>

\* product.update({ isActive: false })
deleteProduct(id) ==
    /\ id \in ProductIds
    /\ products' = [products EXCEPT ![id].isActive = FALSE]
    /\ UNCHANGED <<transactions, creating, handlers, received, response, requests>>

\* ------------------------------------------------------------- adjustStock
\* adjustStockRequest as it would be without `if (newStock < 0)`
adjustStockRequestUnchecked(id, body) ==
    /\ received' = received + 1
    /\ LET previousStock == products[id].stockQuantity
           newStock == JsAdd(previousStock, body.quantity)
       IN  IF ~stockAdjustmentValidation(body)
           THEN /\ response' = Response("validation", body.quantity, 0)
                /\ UNCHANGED handlers
           ELSE IF id \notin ProductIds
           THEN /\ response' = Response("notFound", body.quantity, 0)
                /\ UNCHANGED handlers
           ELSE /\ handlers' = handlers (+) SetToBag({
                      [pc |-> "update", id |-> id, quantity |-> body.quantity,
                       reason |-> Trim(body.reason),
                       isActive |-> products[id].isActive,
                       previousStock |-> previousStock, newStock |-> newStock]})
                /\ UNCHANGED response
    /\ UNCHANGED <<products, transactions, creating, requests>>

\* adjustStockRequest as it would be if Product.findByPk looked among the
\* active products only
adjustStockRequestActive(id, body) ==
    /\ received' = received + 1
    /\ LET previousStock == products[id].stockQuantity
           newStock == JsAdd(previousStock, body.quantity)
       IN  IF ~stockAdjustmentValidation(body)
           THEN /\ response' = Response("validation", body.quantity, 0)
                /\ UNCHANGED handlers
           ELSE IF id \notin ProductIds \/ ~products[id].isActive
           THEN /\ response' = Response("notFound", body.quantity, 0)
                /\ UNCHANGED handlers
           ELSE IF JsLtZero(newStock)
           THEN /\ response' = Response("insufficientStock", body.quantity,
                                        previousStock)
                /\ UNCHANGED handlers
           ELSE /\ handlers' = handlers (+) SetToBag({
                      [pc |-> "update", id |-> id, quantity |-> body.quantity,
                       reason |-> Trim(body.reason),
                       isActive |-> products[id].isActive,
                       previousStock |-> previousStock, newStock |-> newStock]})
                /\ UNCHANGED response
    /\ UNCHANGED <<products, transactions, creating, requests>>

\* the statements of one handler up to its first write: validationResult,
\* Product.findByPk (the row as it is, active or not),
\* `newStock = previousStock + quantity`, `newStock < 0`
adjustStockRequest(id, body) ==
    /\ received' = received + 1
    /\ LET previousStock == products[id].stockQuantity
           newStock == JsAdd(previousStock, body.quantity)
       IN  IF ~stockAdjustmentValidation(body)
           THEN /\ response' = Response("validation", body.quantity, 0)
                /\ UNCHANGED handlers
           ELSE IF id \notin ProductIds
           THEN /\ response' = Response("notFound", body.quantity, 0)
                /\ UNCHANGED handlers
           ELSE IF JsLtZero(newStock)
           THEN /\ response' = Response("insufficientStock", body.quantity,
                                        previousStock)
                /\ UNCHANGED handlers
           ELSE /\ handlers' = handlers (+) SetToBag({
                      [pc |-> "update", id |-> id, quantity |-> body.quantity,
                       reason |-> Trim(body.reason),
                       isActive |-> products[id].isActive,
                       previousStock |-> previousStock, newStock |-> newStock]})
                /\ UNCHANGED response
    /\ UNCHANGED <<products, transactions, creating, requests>>

\* a request that may overlap the handlers in flight
adjustStockFind(id, body) ==
    /\ received < MaxCalls
    /\ adjustStockRequest(id, body)

\* a request sent when every earlier request has been answered
adjustStockSequential(id, body, max) ==
    /\ received < max
    /\ creating.pc = "idle"
    /\ handlers = EmptyBag
    /\ adjustStockRequest(id, body)

\* adjustStockUpdate as it would be with product.increment('stockQuantity',
\* { by: quantity }): the difference is applied to whatever the row holds
\* now, and the model validation does not run
adjustStockUpdateIncrement(h) ==
    /\ h.pc = "update"
    /\ IF PgAccepts(h.newStock)
       THEN /\ products' = [products EXCEPT ![h.id].stockQuantity =
                              @ + ToNumber(h.quantity)]
            /\ handlers' = Step(h, [h EXCEPT !.pc = "insert"])
            /\ UNCHANGED response
       ELSE /\ handlers' = Return(h)
            /\ response' = Response("serverError", h.quantity,
                                    h.previousStock)
            /\ UNCHANGED products
    /\ UNCHANGED <<transactions, creating, received, requests>>

\* adjustStockUpdate as it would be with Product.update({ stockQuantity:
\* newStock }, { where: {} }), which writes every row of the table
adjustStockUpdateEveryRow(h) ==
    /\ h.pc = "update"
    /\ IF ProductStockMin(h.newStock) /\ PgAccepts(h.newStock)
       THEN /\ products' = [id \in ProductIds |->
                              [products[id] EXCEPT !.stockQuantity =
                                  PgInteger(h.newStock)]]
            /\ handlers' = Step(h, [h EXCEPT !.pc = "insert"])
            /\ UNCHANGED response
       ELSE /\ handlers' = Return(h)
            /\ response' = Response("serverError", h.quantity,
                                    h.previousStock)
            /\ UNCHANGED products
    /\ UNCHANGED <<transactions, creating, received, requests>>

\* await product.update({ stockQuantity: newStock })
adjustStockUpdate(h) ==
    /\ h.pc = "update"
    /\ IF ProductStockMin(h.newStock) /\ PgAccepts(h.newStock)
       THEN /\ products' = [products EXCEPT ![h.id].stockQuantity =
                              PgInteger(h.newStock)]
            /\ handlers' = Step(h, [h EXCEPT !.pc = "insert"])
            /\ UNCHANGED response
       ELSE /\ handlers' = Return(h)
            /\ response' = Response("serverError", h.quantity,
                                    h.previousStock)
            /\ UNCHANGED products
    /\ UNCHANGED <<transactions, creating, received, requests>>

\* adjustStockTransaction as it would be with `quantity` stored as it came,
\* without Math.abs
adjustStockTransactionSigned(h) ==
    /\ h.pc = "insert"
    /\ handlers' = Return(h)
    /\ IF notZero(ToNumber(h.quantity))
       THEN /\ transactions' = [transactions EXCEPT ![h.id] = Append(@,
                 [type          |-> IF JsGtZero(h.quantity) THEN "in" ELSE "out",
                  quantity      |-> ToNumber(h.quantity),
                  previousStock |-> h.previousStock,
                  newStock      |-> PgInteger(h.newStock),
                  reason        |-> h.reason])]
            /\ response' = [Response("ok", h.quantity, h.previousStock)
                               EXCEPT !.newStock = h.newStock]
       ELSE /\ response' = Response("serverError", h.quantity,
                                    h.previousStock)
            /\ UNCHANGED transactions
    /\ UNCHANGED <<products, creating, received, requests>>

\* await Transaction.create({...}), then res.json(...) or the catch block
adjustStockTransaction(h) ==
    /\ h.pc = "insert"
    /\ handlers' = Return(h)
    /\ IF notZero(MathAbs(h.quantity))
       THEN /\ transactions' = [transactions EXCEPT ![h.id] = Append(@,
                 [type          |-> IF JsGtZero(h.quantity) THEN "in" ELSE "out",
                  quantity      |-> MathAbs(h.quantity),
                  previousStock |-> h.previousStock,
                  newStock      |-> PgInteger(h.newStock),
                  reason        |-> h.reason])]
            /\ response' = [Response("ok", h.quantity, h.previousStock)
                               EXCEPT !.newStock = h.newStock]
       ELSE /\ response' = Response("serverError", h.quantity,
                                    h.previousStock)
            /\ UNCHANGED transactions
    /\ UNCHANGED <<products, creating, received, requests>>

\* ------------------------------------------------------------------ routes
\* router.METHOD(path, ...chain): Express calls the functions of the chain in
\* order, each one after the one before it called next()
Route(method, path, chain) == [method |-> method, path |-> path, chain |-> chain]

\* routes/products.js as it would be with DELETE /:id behind auth alone
routerStaffDelete ==
    {Route("POST",   "/auth/login",    <<"loginValidation", "login">>),
     Route("POST",   "/auth/register",
           <<"auth", "adminOnly", "registerValidation", "register">>),
     Route("GET",    "/auth/profile",  <<"auth", "getProfile">>),
     Route("GET",    "/products",      <<"auth", "getAllProducts">>),
     Route("GET",    "/products/:id",  <<"auth", "getProduct">>),
     Route("POST",   "/products",
           <<"auth", "productValidation", "createProduct">>),
     Route("PUT",    "/products/:id",
           <<"auth", "productValidation", "updateProduct">>),
     Route("DELETE", "/products/:id",  <<"auth", "deleteProduct">>),
     Route("POST",   "/products/:id/adjust-stock",
           <<"auth", "stockAdjustmentValidation", "adjustStock">>),
     Route("GET",    "/categories",    <<"auth", "getAllCategories">>),
     Route("POST",   "/categories",
           <<"auth", "adminOnly", "categoryValidation", "createCategory">>),
     Route("PUT",    "/categories/:id",
           <<"auth", "adminOnly", "categoryValidation", "updateCategory">>),
     Route("DELETE", "/categories/:id",
           <<"auth", "adminOnly", "deleteCategory">>)}

\* the routes of routes/auth.js, routes/products.js and the category router
router ==
    {Route("POST",   "/auth/login",    <<"loginValidation", "login">>),
     Route("POST",   "/auth/register",
           <<"auth", "adminOnly", "registerValidation", "register">>),
     Route("GET",    "/auth/profile",  <<"auth", "getProfile">>),
     Route("GET",    "/products",      <<"auth", "getAllProducts">>),
     Route("GET",    "/products/:id",  <<"auth", "getProduct">>),
     Route("POST",   "/products",
           <<"auth", "productValidation", "createProduct">>),
     Route("PUT",    "/products/:id",
           <<"auth", "productValidation", "updateProduct">>),
     Route("DELETE", "/products/:id",  <<"auth", "adminOnly", "deleteProduct">>),
     Route("POST",   "/products/:id/adjust-stock",
           <<"auth", "stockAdjustmentValidation", "adjustStock">>),
     Route("GET",    "/categories",    <<"auth", "getAllCategories">>),
     Route("POST",   "/categories",
           <<"auth", "adminOnly", "categoryValidation", "createCategory">>),
     Route("PUT",    "/categories/:id",
           <<"auth", "adminOnly", "categoryValidation", "updateCategory">>),
     Route("DELETE", "/categories/:id",
           <<"auth", "adminOnly", "deleteCategory">>)}

\* the middleware required from '../middleware/auth': each of the two either
\* calls next() or answers the request itself
Guards == {"auth", "adminOnly"}

\* the function of its chain that request r is at
Current(r) == r.route.chain[r.pos]

\* request r is at the last function of its chain, the handler
AtHandler(r) == r.pos = Len(r.route.chain)

\* a request arrives and Express starts the chain of its route
receive(route) ==
    /\ BagCardinality(requests) < MaxRequests
    /\ requests' = requests (+) SetToBag({[route |-> route, pos |-> 1,
                                           passed |-> <<>>]})
    /\ UNCHANGED <<products, transactions, creating, handlers, received,
                   response>>

\* the function request r is at calls next(): auth, adminOnly, or the
\* validation chains, which always do
next(r) ==
    /\ ~AtHandler(r)
    /\ requests' = (requests (-) SetToBag({r})) (+) SetToBag({
                       [r EXCEPT !.pos = @ + 1,
                                 !.passed = Append(@, Current(r))]})
    /\ UNCHANGED <<products, transactions, creating, handlers, received,
                   response>>

\* auth or adminOnly answers request r itself, and the chain ends
refuse(r) ==
    /\ ~AtHandler(r)
    /\ Current(r) \in Guards
    /\ requests' = requests (-) SetToBag({r})
    /\ UNCHANGED <<products, transactions, creating, handlers, received,
                   response>>

\* the handler of request r answers it; what the product handlers do to the
\* store is in the actions above
handle(r) ==
    /\ AtHandler(r)
    /\ requests' = requests (-) SetToBag({r})
    /\ UNCHANGED <<products, transactions, creating, handlers, received,
                   response>>

\* --------------------------------------------------------- specifications
\* createProduct, updateProduct and adjustStock together
Next ==
    \/ \E body \in ProductBodies : createProductInsert(body, LaterStamp)
    \/ createProductTransaction
    \/ \E id \in 1..MaxProducts, body \in UpdateBodies : updateProduct(id, body)
    \/ \E id \in 1..MaxProducts, body \in StoreAdjustBodies :
         adjustStockFind(id, body)
    \/ \E h \in InFlight : adjustStockUpdate(h)
    \/ \E h \in InFlight : adjustStockTransaction(h)

Spec == Init /\ [][Next]_vars

\* the ledger alone: createProduct and adjustStock on JSON numbers, with no
\* updateProduct and no JSON string in a body
NextLedger ==
    \/ \E body \in ProductBodies : createProductInsert(body, LaterStamp)
    \/ createProductTransaction
    \/ \E id \in 1..MaxProducts, body \in NumberAdjustBodies :
         adjustStockFind(id, body)
    \/ \E h \in InFlight : adjustStockUpdate(h)
    \/ \E h \in InFlight : adjustStockTransaction(h)

SpecLedger == Init /\ [][NextLedger]_vars

\* createProduct and adjustStock on every request body, with no updateProduct
NextWire ==
    \/ \E body \in ProductBodies : createProductInsert(body, LaterStamp)
    \/ createProductTransaction
    \/ \E id \in 1..MaxProducts, body \in AdjustBodies :
         adjustStockFind(id, body)
    \/ \E h \in InFlight : adjustStockUpdate(h)
    \/ \E h \in InFlight : adjustStockTransaction(h)

SpecWire == Init /\ [][NextWire]_vars

\* createProduct and adjustStock on JSON numbers, with every reason
NextReason ==
    \/ \E body \in ProductBodies : createProductInsert(body, LaterStamp)
    \/ createProductTransaction
    \/ \E id \in 1..MaxProducts, body \in ReasonAdjustBodies :
         adjustStockFind(id, body)
    \/ \E h \in InFlight : adjustStockUpdate(h)
    \/ \E h \in InFlight : adjustStockTransaction(h)

SpecReason == Init /\ [][NextReason]_vars

\* the catalogue and the ledger together: createProduct, updateProduct and
\* deleteProduct on bodies that set the minimum stock level, adjustStock on
\* JSON numbers
NextCatalog ==
    \/ \E body \in CatalogBodies : createProductInsert(body, LaterStamp)
    \/ createProductTransaction
    \/ \E id \in 1..MaxProducts, body \in CatalogBodies : updateProduct(id, body)
    \/ \E id \in 1..MaxProducts : deleteProduct(id)
    \/ \E id \in 1..MaxProducts, body \in CatalogAdjustBodies :
         adjustStockFind(id, body)
    \/ \E h \in InFlight : adjustStockUpdate(h)
    \/ \E h \in InFlight : adjustStockTransaction(h)

SpecCatalog == Init /\ [][NextCatalog]_vars

\* one client: createProduct, then adjustStock requests on JSON numbers, each
\* sent after the answer to the one before
NextHistory ==
    \/ \E body \in CatalogBodies : createProductInsert(body, LaterStamp)
    \/ createProductTransaction
    \/ \E id \in 1..MaxProducts, body \in CatalogAdjustBodies :
         adjustStockSequential(id, body, MaxHistory)
    \/ \E h \in InFlight : adjustStockUpdate(h)
    \/ \E h \in InFlight : adjustStockTransaction(h)

SpecHistory == Init /\ [][NextHistory]_vars

\* one client and one product: createProduct, then the adjustStock requests
\* of the scenario in any order, each sent after the answer to the one before
NextScenario ==
    \/ \E body \in CatalogBodies : createProductInsert(body, LaterStamp)
    \/ createProductTransaction
    \/ \E body \in ScenarioAdjustBodies :
         1 \in ProductIds /\ adjustStockSequential(1, body, MaxScenario)
    \/ \E h \in InFlight : adjustStockUpdate(h)
    \/ \E h \in InFlight : adjustStockTransaction(h)

SpecScenario == Init /\ [][NextScenario]_vars

\* createProduct on bodies with and without a minimum level, and adjustStock
NextLevels ==
    \/ \E body \in LevelBodies : createProductInsert(body, LaterStamp)
    \/ createProductTransaction
    \/ \E id \in 1..MaxProducts, body \in CatalogAdjustBodies :
         adjustStockFind(id, body)
    \/ \E h \in InFlight : adjustStockUpdate(h)
    \/ \E h \in InFlight : adjustStockTransaction(h)

SpecLevels == Init /\ [][NextLevels]_vars

\* createProduct, updateProduct on bodies with and without isActive,
\* deleteProduct and adjustStock
NextFlags ==
    \/ \E body \in CatalogBodies : createProductInsert(body, LaterStamp)
    \/ createProductTransaction
    \/ \E id \in 1..MaxProducts, body \in FlagBodies : updateProduct(id, body)
    \/ \E id \in 1..MaxProducts : deleteProduct(id)
    \/ \E id \in 1..MaxProducts, body \in CatalogAdjustBodies :
         adjustStockFind(id, body)
    \/ \E h \in InFlight : adjustStockUpdate(h)
    \/ \E h \in InFlight : adjustStockTransaction(h)

SpecFlags == Init /\ [][NextFlags]_vars

\* createProduct at any of the times, with and without sku and barcode, and
\* updateProduct on the same bodies
NextSku ==
    \/ \E body \in SkuBodies, now \in Times : createProductInsert(body, now)
    \/ createProductTransaction
    \/ \E id \in 1..MaxSku, body \in SkuBodies : updateProduct(id, body)

SpecSku == InitRows(MaxSku) /\ [][NextSku]_vars

\* several products and adjustStock requests that may overlap, on the same
\* product or on different ones
NextPair ==
    \/ createProductInsert(PairBody, LaterStamp)
    \/ createProductTransaction
    \/ \E id \in 1..MaxPair, body \in CatalogAdjustBodies :
         adjustStockFind(id, body)
    \/ \E h \in InFlight : adjustStockUpdate(h)
    \/ \E h \in InFlight : adjustStockTransaction(h)

SpecPair == InitRows(MaxPair) /\ [][NextPair]_vars

\* one client as in NextHistory, and deleteProduct at any time
NextArchive ==
    \/ \E body \in CatalogBodies : createProductInsert(body, LaterStamp)
    \/ createProductTransaction
    \/ \E id \in 1..MaxProducts, body \in CatalogAdjustBodies :
         adjustStockSequential(id, body, MaxHistory)
    \/ \E h \in InFlight : adjustStockUpdate(h)
    \/ \E h \in InFlight : adjustStockTransaction(h)
    \/ \E id \in 1..MaxProducts : deleteProduct(id)

SpecArchive == Init /\ [][NextArchive]_vars

\* Date.now() at a createProduct request: the millisecond of the request
\* before it, or a later one
Clock ==
    IF products = <<>> THEN {1}
    ELSE {products[Len(products)].createdAt,
          products[Len(products)].createdAt + 1}

\* the catalogue with requests that may come in the same millisecond
NextPages ==
    \/ \E body \in PagedBodies, now \in Clock : createProductInsert(body, now)
    \/ createProductTransaction
    \/ \E id \in 1..MaxPaged : deleteProduct(id)

SpecPages == InitRows(MaxPaged) /\ [][NextPages]_vars

\* the requests of several clients on their way to the handlers
NextRoutes ==
    \/ \E route \in router : receive(route)
    \/ \E r \in BagToSet(requests) : next(r)
    \/ \E r \in BagToSet(requests) : refuse(r)
    \/ \E r \in BagToSet(requests) : handle(r)

SpecRoutes == Init /\ [][NextRoutes]_vars

\* the catalogue alone: createProduct, each request in a millisecond of its
\* own, and deleteProduct
NextListing ==
    \/ \E body \in ListingBodies : createProductInsert(body, LaterStamp)
    \/ createProductTransaction
    \/ \E id \in 1..MaxListed : deleteProduct(id)

SpecListing == InitRows(MaxListed) /\ [][NextListing]_vars

\* ------------------------------------------------------ reading the store
\* the movements of one product, oldest first
TransactionsOf(id) == transactions[id]
\* every stored movement
AllTransactions ==
    UNION {{transactions[id][i] : i \in 1..Len(transactions[id])} :
             id \in DOMAIN transactions}

\* getProduct: the included transactions of product id, `order: createdAt
\* DESC` (newest first), `limit: 10`
getProduct(id) ==
    LET txs == TransactionsOf(id)
        n   == Len(txs)
        k   == IF n < HistoryLimit THEN n ELSE HistoryLimit
    IN  [i \in 1..k |-> txs[n + 1 - i]]

\* getAllProducts: the active products, with lowStock=true those whose
\* stockQuantity is less than (Op.lt) their minStockLevel
getAllProducts(lowStock) ==
    {id \in ProductIds :
        /\ products[id].isActive
        /\ lowStock => products[id].stockQuantity < products[id].minStockLevel}

\* the frontend's filter: p.stockQuantity <= p.minStockLevel
lowStockFilter(p) == p.stockQuantity <= p.minStockLevel

\* paginate(page, limit) on the query strings page and limit (Undef when the
\* query has none): the defaults, `(page - 1) * limit`, `parseInt(limit)`
paginate(page, limit) ==
    LET p == IF page.t = "undef" THEN Num(1) ELSE page
        l == IF limit.t = "undef" THEN Num(DefaultLimit) ELSE limit
    IN  [limit |-> ToNumber(l), offset |-> (ToNumber(p) - 1) * ToNumber(l)]

RECURSIVE Listings(_)
\* `order: [['createdAt', 'DESC']]`: the orders in which the database may
\* return the rows ids, newest first; rows with the same createdAt come in
\* any order, and not in the same order in every query
Listings(ids) ==
    IF ids = {} THEN {<<>>}
    ELSE LET newest == {i \in ids : \A j \in ids :
                            products[j].createdAt <= products[i].createdAt}
         IN  UNION {{<<m>> \o rest : rest \in Listings(ids \ {m})} :
                       m \in newest}

\* Math.ceil(a / b)
Ceil(a, b) == (a + b - 1) \div b

\* the response of getAllProducts when the database orders the matching
\* rows as `all`: findAndCountAll with limit and offset, and the pagination
\* block
getAllProductsPage(page, limit, all) ==
    LET pg   == paginate(page, limit)
        last == IF pg.offset + pg.limit < Len(all) THEN pg.offset + pg.limit
                ELSE Len(all)
    IN  [products   |-> SubSeq(all, pg.offset + 1, last),
         pagination |-> [total |-> Len(all),
                         page  |-> IF page.t = "undef" \/ ToNumber(page) = 0
                                   THEN 1 ELSE ToNumber(page),
                         limit |-> pg.limit,
                         pages |-> Ceil(Len(all), pg.limit)]]

\* the frontend's loadProducts: apiRequest('/products'), the lists that
\* `products = response.products` may hold
loadProducts ==
    {getAllProductsPage(Undef, Undef, all).products :
        all \in Listings(getAllProducts(FALSE))}

RECURSIVE totalValue(_)
\* updateDashboardStats: the sum of p.stockQuantity * p.price
totalValue(ids) ==
    IF ids = <<>> THEN 0
    ELSE products[Head(ids)].stockQuantity * products[Head(ids)].price
           + totalValue(Tail(ids))

\* updateDashboardStats: products.length, the low-stock count, the value
updateDashboardStats(loaded) ==
    [totalProducts    |-> Len(loaded),
     lowStockProducts |-> Len(SelectSeq(loaded,
                               LAMBDA id : lowStockFilter(products[id]))),
     totalValue       |-> totalValue(loaded)]

SignedQuantity(t) == IF t.type = "in" THEN t.quantity ELSE 0 - t.quantity

RECURSIVE SignedSum(_)
SignedSum(txs) ==
    IF txs = <<>> THEN 0
    ELSE SignedSum(SubSeq(txs, 1, Len(txs) - 1)) + SignedQuantity(txs[Len(txs)])

\* no handler of any kind is in flight
Quiescent == creating.pc = "idle" /\ InFlight = {}

\* the initial movement of product id, if it has one, was inserted before
\* every other movement of the product (createProduct did not overlap an
\* adjustStock of the product it was creating)
SeededFirst(id) ==
    /\ creating.id # id
    /\ \A i \in 2..Len(TransactionsOf(id)) :
         TransactionsOf(id)[i].reason # "Initial stock"

\* the movements chain: each starts from the stock the one before it left,
\* the first from stock 0 (a product has its starting stock from its initial
\* movement, or starts at 0)
Chained(txs) ==
    \A i \in 1..Len(txs) :
        txs[i].previousStock = IF i = 1 THEN 0 ELSE txs[i - 1].newStock

\* ------------------------------------------------------------------ claims

\* C1: whenever no handler is in flight, each product's stockQuantity is the
\* signed sum of its stored movements ('in' +quantity, 'out' -quantity; the
\* starting stock is the initial 'in' movement), after any interleaving of
\* adjustStock calls.
C1_StockIsSumOfMovements ==
    Quiescent =>
        \A id \in ProductIds :
            products[id].stockQuantity = SignedSum(TransactionsOf(id))

\* the two adjustments -5 and +3 of a product created with stock 10 are its
\* only movements besides the initial one, and both handlers have returned
TwoAdjustmentsDone ==
    /\ Quiescent
    /\ 1 \in ProductIds
    /\ Len(TransactionsOf(1)) = 3
    /\ TransactionsOf(1)[1].reason = "Initial stock"
    /\ TransactionsOf(1)[1].newStock = 10
    /\ {<<TransactionsOf(1)[i].type, TransactionsOf(1)[i].quantity>> : i \in {2, 3}}
         = {<<"out", 5>>, <<"in", 3>>}

\* C2: concurrent adjustStock calls of -5 and +3 on a product at stock 10 leave
\* it at exactly 8 with two movements that chain in a serial order
\* (10->5->8 or 10->13->8).
C2_NoLostUpdate ==
    TwoAdjustmentsDone =>
        /\ products[1].stockQuantity = 8
        /\ Chained(TransactionsOf(1))

\* C3: for every product, the movements in insert order form an unbroken chain:
\* each previousStock is the newStock of the movement inserted just before it,
\* the first one starts from the product's initial stock.
C3_MovementsChain ==
    \A id \in ProductIds : SeededFirst(id) => Chained(TransactionsOf(id))

\* C4: whenever no adjustStock call is in flight, each product's stockQuantity
\* is the newStock of its most recent movement, or its initial stock (0) if it
\* has no movement.
C4_StockIsLastNewStock ==
    Quiescent =>
        \A id \in ProductIds :
            SeededFirst(id) =>
                products[id].stockQuantity =
                    IF TransactionsOf(id) = <<>> THEN 0
                    ELSE TransactionsOf(id)[Len(TransactionsOf(id))].newStock

\* the movement that handler h is about to insert is in the store
MovementStored(h) ==
    \E i \in 1..Len(TransactionsOf(h.id)) :
        /\ TransactionsOf(h.id)[i].previousStock = h.previousStock
        /\ TransactionsOf(h.id)[i].newStock = PgInteger(h.newStock)
        /\ TransactionsOf(h.id)[i].reason = h.reason

\* C5: the product update and the movement insert of one adjustStock call are
\* all-or-nothing: in no reachable state has the store committed the call's
\* stock update without the call's movement.
C5_AllOrNothing ==
    \A h \in InFlight : h.pc = "insert" => MovementStored(h)

\* the response sent last is a failure response
Failed ==
    response.res \in {"validation", "notFound", "insufficientStock", "serverError"}

\* one adjustStock request has been received and answered, no other has been
\* received, and no createProduct is in flight
SoleRequestAnswered ==
    /\ received = 1
    /\ Quiescent

\* the store is as createProduct alone leaves it: every product has the stock
\* of its initial movement (0 without one) and there is no other movement
LedgerUntouched ==
    /\ \A id \in ProductIds :
         products[id].stockQuantity = SignedSum(TransactionsOf(id))
    /\ \A t \in AllTransactions : t.reason = "Initial stock"

\* C6: an adjustStock call that ends in a failure response of any kind
\* (validation, not found, insufficient stock, or an error while inserting the
\* movement, reported as 500) leaves every product's stockQuantity and the
\* movements as they were before the call.  Stated for a call that is the only
\* one: nothing but that call can have written.
C6_FailureLeavesNoWrite ==
    (SoleRequestAnswered /\ Failed) => LedgerUntouched

\* the request answered last found its product and asked for more than the
\* stock it read
WouldGoNegative ==
    /\ response.res \notin {"none", "validation", "notFound"}
    /\ response.previousStock + ToNumber(response.quantity) < 0

\* C7: every adjustStock call whose signed quantity would make
\* currentStock + signedQuantity < 0 fails with 'Insufficient stock' (400) and
\* changes neither the product nor the movements.
C7_InsufficientStockRejected ==
    (SoleRequestAnswered /\ WouldGoNegative) =>
        response.res = "insufficientStock" /\ LedgerUntouched

\* C8: in every reachable state every product's stockQuantity is a
\* non-negative integer, for any interleaving of createProduct, updateProduct
\* and concurrent adjustStock calls.
C8_StockNeverNegative ==
    \A id \in ProductIds : products[id].stockQuantity \in Nat

\* an adjustStock call was refused for insufficient stock after another one
\* took stock out and updateProduct wrote the stock
C8_Witness ==
    /\ response.res = "insufficientStock"
    /\ \E t \in AllTransactions : t.type = "out"
    /\ \E id \in ProductIds :
         /\ products[id].stockQuantity = 0
         /\ SignedSum(TransactionsOf(id)) # 0

\* C9: every stored movement has newStock = previousStock + quantity when its
\* type is 'in', newStock = previousStock - quantity when it is 'out', and
\* newStock >= 0.
C9_MovementArithmetic ==
    \A t \in AllTransactions :
        /\ t.newStock = t.previousStock + SignedQuantity(t)
        /\ t.newStock >= 0

\* the request answered last had quantity zero, in a representation the
\* request validation takes for an integer
ZeroQuantityAnswered ==
    /\ response.res # "none"
    /\ IsInt(response.quantity)
    /\ ToNumber(response.quantity) = 0

\* C10: an adjustStock request whose quantity is zero always fails (with a
\* validation error), creates no movement and leaves the stock unchanged; no
\* stored movement has quantity 0.  Stated for a request that is the only
\* one, and with any failure response in place of the validation error.
C10_ZeroQuantityRejected ==
    /\ (SoleRequestAnswered /\ ZeroQuantityAnswered) =>
         Failed /\ LedgerUntouched
    /\ \A t \in AllTransactions : t.quantity # 0

\* C11: an adjustStock request whose reason is empty after trimming (a reason
\* of whitespace included) is rejected before any mutation, so no stored
\* movement has an empty reason.
C11_BlankReasonRejected ==
    \A t \in AllTransactions : t.reason # ""

\* handler h takes its step from product.update to Transaction.create
UpdateStepOf(h) ==
    /\ h.pc = "update"
    /\ handlers' = Step(h, [h EXCEPT !.pc = "insert"])

\* C12: after a product is created, adjustStock is the only operation that
\* changes its stockQuantity; in particular updateProduct never changes it.
\* Every step that changes the stockQuantity of a product is the
\* product.update of an adjustStock handler for that product.
C12_OnlyAdjustStockChangesStock ==
    [][\A id \in ProductIds :
          products'[id].stockQuantity # products[id].stockQuantity =>
              \E h \in InFlight : h.id = id /\ UpdateStepOf(h)]_vars

\* the movements txs2 are the movements txs with none or more appended
Extends(txs2, txs) ==
    /\ Len(txs2) >= Len(txs)
    /\ SubSeq(txs2, 1, Len(txs)) = txs

\* C13: movements are append-only: no step of createProduct, updateProduct,
\* deleteProduct or adjustStock changes or removes a stored movement; the
\* movements of a soft-deleted product stay in place.
C13_MovementsAppendOnly ==
    [][\A id \in 1..MaxProducts :
          Extends(transactions'[id], transactions[id])]_vars

\* a product with an initial movement and an adjustment has been deleted
C13_Witness ==
    \E id \in ProductIds :
        /\ ~products[id].isActive
        /\ Len(TransactionsOf(id)) >= 2

\* the movements of product id that adjustStock made, oldest first
Adjustments(id) ==
    SelectSeq(TransactionsOf(id), LAMBDA t : t.reason # "Initial stock")

\* the stock of product id before its first adjustment
InitialStock(id) ==
    IF TransactionsOf(id) # <<>> /\ TransactionsOf(id)[1].reason = "Initial stock"
    THEN TransactionsOf(id)[1].newStock
    ELSE 0

\* the records hist, newest first, walk from stock `from` to stock `to` when
\* read oldest to newest
Walk(hist, from, to) ==
    /\ hist # <<>> => hist[Len(hist)].previousStock = from
    /\ hist # <<>> => hist[1].newStock = to
    /\ hist = <<>> => from = to
    /\ \A i \in 1..(Len(hist) - 1) : hist[i].previousStock = hist[i + 1].newStock

\* C14: after N successful sequential adjustments of a product, the history
\* that getProduct returns holds exactly N adjustment records, newest first,
\* and read oldest to newest they walk from the product's initial stock to its
\* current stock; for every N, N > 10 included.
C14_HistoryIsComplete ==
    Quiescent =>
        \A id \in ProductIds :
            LET hist == SelectSeq(getProduct(id),
                                  LAMBDA t : t.reason # "Initial stock")
            IN  /\ Len(hist) = Len(Adjustments(id))
                /\ Walk(hist, InitialStock(id), products[id].stockQuantity)

\* handler h takes its last step and stores a movement
InsertStepOf(h) ==
    /\ h.pc = "insert"
    /\ handlers' = Return(h)
    /\ transactions'[h.id] # transactions[h.id]

\* C15: the kind of a movement comes from the sign of the validated quantity
\* alone: the movement a handler stores has type 'in' exactly when the signed
\* quantity of its request is positive, 'out' exactly when it is negative, has
\* the magnitude as its quantity, and never has type 'adjustment'.
C15_KindFromSign ==
    [][\A h \in InFlight :
          InsertStepOf(h) =>
              LET t == transactions'[h.id][Len(transactions'[h.id])]
                  q == ToNumber(h.quantity)
              IN  /\ t.type = "in" <=> q > 0
                  /\ t.type = "out" <=> q < 0
                  /\ t.quantity = IF q < 0 THEN 0 - q ELSE q
                  /\ t.type # "adjustment"]_vars

\* adjustStock has stored an 'out' movement, and an 'in' movement for a
\* quantity sent as a JSON string
C15_Witness ==
    /\ \E t \in AllTransactions : t.type = "out"
    /\ response.res = "ok"
    /\ response.quantity.t = "str"
    /\ \E t \in AllTransactions : t.type = "in" /\ t.reason # "Initial stock"

\* the movement of an adjustment
Movement(type, quantity, previousStock, newStock) ==
    [type |-> type, quantity |-> quantity, previousStock |-> previousStock,
     newStock |-> newStock, reason |-> "recount"]

\* product 1 was created with stock 10 and minStockLevel 5, and its first
\* adjustment, if it has one, is the -7 of the scenario
ScenarioStarted ==
    /\ Quiescent
    /\ 1 \in ProductIds
    /\ InitialStock(1) = 10
    /\ products[1].minStockLevel = 5
    /\ Adjustments(1) # <<>> => Adjustments(1)[1] = Movement("out", 7, 10, 3)

\* C16: on a product with stock 10 and minStockLevel 5, sequentially:
\* adjustStock(-7) succeeds with new stock 3 and the product is then low
\* stock; the following adjustStock(-5) fails with insufficient stock, the
\* stock stays 3 and no movement is added; the following adjustStock(+20)
\* succeeds with new stock 23.
C16_Scenario ==
    ScenarioStarted =>
        /\ (received = 1 /\ response.quantity = Num(0 - 7)) =>
              /\ response.res = "ok"
              /\ response.newStock = Num(3)
              /\ products[1].stockQuantity = 3
              /\ Adjustments(1) = <<Movement("out", 7, 10, 3)>>
              /\ lowStockFilter(products[1])
              /\ 1 \in getAllProducts(TRUE)
        /\ (received = 2 /\ response.quantity = Num(0 - 5)) =>
              /\ response.res = "insufficientStock"
              /\ products[1].stockQuantity = 3
              /\ Adjustments(1) = <<Movement("out", 7, 10, 3)>>
        /\ (received = 3 /\ response.quantity = Num(20)
               /\ Len(Adjustments(1)) <= 2) =>
              /\ response.res = "ok"
              /\ response.newStock = Num(23)
              /\ products[1].stockQuantity = 23
              /\ Adjustments(1) = <<Movement("out", 7, 10, 3),
                                    Movement("in", 20, 3, 23)>>

\* the scenario has run to its end: -7 and +20 are stored, one of the three
\* requests was refused, and the product is no longer low stock
C16_Witness ==
    /\ ScenarioStarted
    /\ received = 3
    /\ response.res = "ok"
    /\ response.quantity = Num(20)
    /\ Len(Adjustments(1)) = 2
    /\ products[1].stockQuantity = 23
    /\ ~lowStockFilter(products[1])

\* the initial movements of product id
Seeds(id) ==
    SelectSeq(TransactionsOf(id), LAMBDA t : t.reason = "Initial stock")

\* C17: createProduct with starting stock s > 0 creates the product with
\* stockQuantity s and exactly one movement of type 'in' with quantity s,
\* previousStock 0 and newStock s; with starting stock 0 or none it creates
\* the product with stockQuantity 0 and no movement; a later adjustStock
\* chains from the seeded movement as from any other.
C17_CreateProductSeeds ==
    \A id \in ProductIds :
        /\ creating.id = id =>
              /\ ToNumber(creating.stockQuantity) > 0
              /\ received = 0 =>
                    products[id].stockQuantity = ToNumber(creating.stockQuantity)
              /\ Seeds(id) = <<>>
        /\ creating.id # id =>
              /\ Len(Seeds(id)) <= 1
              /\ \A i \in 1..Len(Seeds(id)) :
                    /\ Seeds(id)[i].type = "in"
                    /\ Seeds(id)[i].quantity > 0
                    /\ Seeds(id)[i].previousStock = 0
                    /\ Seeds(id)[i].newStock = Seeds(id)[i].quantity
              /\ received = 0 =>
                    /\ TransactionsOf(id) = Seeds(id)
                    /\ products[id].stockQuantity = InitialStock(id)
              /\ (received = 1 /\ Quiescent /\ SeededFirst(id)) =>
                    Chained(TransactionsOf(id))

\* a product was created with stock 10 and one adjustment has followed its
\* initial movement
C17_Witness ==
    /\ received = 1
    /\ Quiescent
    /\ 1 \in ProductIds
    /\ Len(TransactionsOf(1)) = 2
    /\ Seeds(1) = <<[type |-> "in", quantity |-> 10, previousStock |-> 0,
                     newStock |-> 10, reason |-> "Initial stock"]>>
    /\ TransactionsOf(1)[2].previousStock = 10

\* C18: adjustStock on a product id that does not exist answers 404, and
\* insufficient stock answers 400; in both cases no product row and no
\* movement is created or changed.  Stated for a request that is the only
\* one.
C18_NotFoundAndInsufficient ==
    SoleRequestAnswered =>
        /\ response.res = "notFound" =>
              StatusOf(response.res) = 404 /\ LedgerUntouched
        /\ WouldGoNegative =>
              StatusOf(response.res) = 400 /\ LedgerUntouched

\* C19: a successful adjustStock response reports the stock before the call,
\* the stock after it with newStock = previousStock + signedQuantity, and the
\* magnitude |signedQuantity| of the adjustment; previousStock and newStock
\* are the values stored in the movement the call created.
C19_ResponseValues ==
    response.res = "ok" =>
        /\ response.newStock =
              Num(response.previousStock + ToNumber(response.quantity))
        /\ adjustment(response) = Num(MathAbs(response.quantity))
        /\ \E t \in AllTransactions :
              /\ t.previousStock = response.previousStock
              /\ t.newStock = ToNumber(response.newStock)

\* C20: a product is low stock exactly when stockQuantity <= minStockLevel,
\* and the listing with lowStock=true returns exactly the active products
\* that are low stock, those at their minimum level included, as the
\* frontend's count and filter do.
C20_LowStockListing ==
    getAllProducts(TRUE) =
        {id \in getAllProducts(FALSE) : lowStockFilter(products[id])}

\* the active products
ActiveProducts == {id \in ProductIds : products[id].isActive}

\* C21: the dashboard summary reports the number of all active products, the
\* number of active products with stock <= minStockLevel, and the sum of
\* stockQuantity * price over all active products, for any number of active
\* products (more than one page of the listing included).
C21_DashboardSummary ==
    Quiescent =>
        \A loaded \in loadProducts :
            LET stats == updateDashboardStats(loaded)
            IN  /\ stats.totalProducts = Cardinality(ActiveProducts)
                /\ stats.lowStockProducts =
                      Cardinality({id \in ActiveProducts :
                                      lowStockFilter(products[id])})
                /\ \A all \in Listings(ActiveProducts) :
                      stats.totalValue = totalValue(all)

\* C27: for every adjustStock body the request validation accepts, a quantity
\* sent as a numeric string included, a successful call stores
\* previousStock + the integer value of the quantity as the product's stock,
\* and stores the same number as the newStock of its movement.
C27_StoredStockIsIntegerSum ==
    [][\A h \in InFlight :
          /\ UpdateStepOf(h) =>
                products'[h.id].stockQuantity =
                    h.previousStock + ToNumber(h.quantity)
          /\ InsertStepOf(h) =>
                transactions'[h.id][Len(transactions'[h.id])].newStock =
                    h.previousStock + ToNumber(h.quantity)]_vars

\* createProduct on body stores a new row
InsertedBy(body) ==
    /\ createProductInsert(body, LaterStamp)
    /\ Len(products') = Len(products) + 1

\* C29: createProduct stores the minStockLevel of the body for every valid
\* value, 0 included, and the default 10 only when the body has none; a
\* product created with minStockLevel 0 is low stock only when its stock is 0.
C29_MinStockLevelStored ==
    [][\A body \in LevelBodies :
          InsertedBy(body) =>
              LET p == products'[Len(products')]
              IN  /\ p.minStockLevel =
                        IF body.minStockLevel = Undef
                        THEN DefaultMinStockLevel
                        ELSE ToNumber(body.minStockLevel)
                  /\ body.minStockLevel = Num(0) =>
                        (lowStockFilter(p) <=> p.stockQuantity = 0)]_vars

\* C28: only deleteProduct changes the isActive field of a product;
\* updateProduct, which every authenticated user may call, neither
\* soft-deletes nor reactivates a product.
C28_OnlyDeleteChangesActive ==
    [][\A id \in ProductIds :
          products'[id].isActive # products[id].isActive =>
              deleteProduct(id)]_vars

\* the sku and the barcode that createProduct on body at time now asks
\* Product.create to store
RequestedSku(body, now) ==
    IF body.sku \in {Absent, ""}
    THEN generateSKU(CategoryName(body.categoryId), body.name, now)
    ELSE body.sku
RequestedBarcode(body) == IF body.barcode = Absent THEN Null ELSE body.barcode

\* the request collides with a stored product
Collides(body, now) ==
    \E id \in ProductIds :
        \/ products[id].sku = RequestedSku(body, now)
        \/ /\ RequestedBarcode(body) # Null
           /\ products[id].barcode = RequestedBarcode(body)

\* no two products have the same sku or the same barcode that is not NULL
UniqueSkuAndBarcode ==
    \A a, b \in ProductIds :
        a # b =>
            /\ products[a].sku # products[b].sku
            /\ products[a].barcode # Null =>
                  products[a].barcode # products[b].barcode

\* C30: no two products share a SKU or a non-null barcode, generated SKUs
\* included; a createProduct whose sku or barcode collides with a stored
\* product is answered 400 and creates neither a product nor a movement.
C30_SkuAndBarcodeUnique ==
    /\ []UniqueSkuAndBarcode
    /\ [][\A body \in SkuBodies, now \in Times :
             (createProductInsert(body, now) /\ Collides(body, now)) =>
                 /\ creating' = Created(400)
                 /\ products' = products
                 /\ transactions' = transactions]_vars

\* a request was answered 400 although no stored product has an sku or a
\* barcode from a request body: two generated SKUs collided
C30_Witness ==
    /\ creating.status = 400
    /\ Len(products) = 1
    /\ \A id \in ProductIds :
          products[id].sku # "BOLT-1" /\ products[id].barcode = Null

\* C23: adjustStock on a soft-deleted product is allowed and follows the rules
\* of an active one: a request that would take the stock below zero is
\* refused, any other one updates the stock and appends one movement, and no
\* step of adjustStock changes the isActive field.
C23_AdjustStockOnDeleted ==
    [][/\ \A id \in ProductIds, body \in CatalogAdjustBodies :
            (~products[id].isActive /\ adjustStockFind(id, body)) =>
                IF products[id].stockQuantity + ToNumber(body.quantity) < 0
                THEN response'.res = "insufficientStock" /\ handlers' = handlers
                ELSE \E h \in BagToSet(handlers') :
                        /\ handlers' = handlers (+) SetToBag({h})
                        /\ h.id = id /\ h.pc = "update"
                        /\ ToNumber(h.newStock) =
                             products[id].stockQuantity + ToNumber(body.quantity)
       /\ \A h \in InFlight :
            /\ (~h.isActive /\ UpdateStepOf(h)) =>
                  /\ products'[h.id].stockQuantity = ToNumber(h.newStock)
                  /\ products'[h.id].isActive = products[h.id].isActive
            /\ (~h.isActive /\ h.pc = "insert" /\ handlers' = Return(h)) =>
                  /\ Len(transactions'[h.id]) = Len(transactions[h.id]) + 1
                  /\ response'.res = "ok"
                  /\ products' = products]_vars

\* a handler that found its product soft-deleted has written the new stock
\* and is about to store its movement; the product is still soft-deleted
C23_Witness ==
    \E h \in InFlight :
        /\ ~h.isActive
        /\ h.pc = "insert"
        /\ ~products[h.id].isActive
        /\ products[h.id].stockQuantity = h.previousStock + ToNumber(h.quantity)

\* every product but id is as it was, with the movements it had
OthersUntouched(id) ==
    \A other \in ProductIds \ {id} :
        /\ products'[other] = products[other]
        /\ transactions'[other] = transactions[other]

\* every product that one adjustment was made on, and no other is being made
\* on, has the stock and the movement that the adjustment gives on its own
AloneResult ==
    \A id \in ProductIds :
        (Len(Adjustments(id)) = 1 /\ \A h \in InFlight : h.id # id) =>
            LET t == Adjustments(id)[1]
                start == ToNumber(PairBody.stockQuantity)
            IN  /\ t.previousStock = start
                /\ t.newStock = start + SignedQuantity(t)
                /\ products[id].stockQuantity = t.newStock

\* C24: a successful adjustStock on a product inserts exactly one movement,
\* for that product, and changes the stockQuantity of that product only; the
\* stock and the movements of every other product stay as they are, and
\* adjustments of different products that overlap give each product the
\* result its adjustment gives alone.
C24_AdjustStockIsLocal ==
    /\ []AloneResult
    /\ [][\A h \in InFlight :
            /\ UpdateStepOf(h) =>
                  /\ OthersUntouched(h.id)
                  /\ transactions' = transactions
                  /\ products' = [products EXCEPT ![h.id].stockQuantity =
                                     ToNumber(h.newStock)]
            /\ (h.pc = "insert" /\ handlers' = Return(h)) =>
                  /\ OthersUntouched(h.id)
                  /\ products' = products
                  /\ response'.res = "ok"
                  /\ Len(transactions'[h.id]) = Len(transactions[h.id]) + 1
                  /\ Extends(transactions'[h.id], transactions[h.id])]_vars

\* two adjustments of different products overlap: one has written its stock,
\* the other has read its product and not yet written
C24_Witness ==
    \E h1, h2 \in InFlight :
        /\ h1.id # h2.id
        /\ h1.pc = "insert"
        /\ h2.pc = "update"
        /\ products[h1.id].stockQuantity # products[h2.id].stockQuantity

\* C22: a product that deleteProduct soft-deleted is in no listing of
\* getAllProducts, with or without the low-stock filter, while it stays
\* inactive; its row, its stockQuantity and all of its movements are kept
\* and getProduct returns them.
C22_DeletedIsHiddenAndKept ==
    /\ [](\A id \in ProductIds :
            ~products[id].isActive =>
                /\ id \notin getAllProducts(FALSE)
                /\ id \notin getAllProducts(TRUE)
                /\ \A i \in 1..Len(TransactionsOf(id)) :
                      \E j \in 1..Len(getProduct(id)) :
                          getProduct(id)[j] = TransactionsOf(id)[i])
    /\ [][\A id \in ProductIds :
             deleteProduct(id) =>
                 /\ products'[id].stockQuantity = products[id].stockQuantity
                 /\ transactions' = transactions]_vars

\* the query string of a number
Query(n) == Str(FALSE, DigitsOf(n))

\* the responses getAllProducts may give to ?page=&limit= (and &lowStock=true)
Pages(page, limit, lowStock) ==
    {getAllProductsPage(Query(page), Query(limit), all) :
        all \in Listings(getAllProducts(lowStock))}

\* the ids of a sequence
Range(seq) == {seq[i] : i \in 1..Len(seq)}

\* C26: for every page >= 1 and limit >= 1 the listing returns the items at
\* offset (page-1)*limit of the newest-first listing of the matching active
\* products and reports pages = ceil(total/limit), so that pages 1..pages,
\* fetched with no write in between, are pairwise disjoint and together hold
\* every matching active product exactly once.
C26_PagesPartitionListing ==
    \A limit \in 1..MaxLimit, lowStock \in BOOLEAN :
        LET matching == getAllProducts(lowStock)
            total    == Cardinality(matching)
            pages    == Ceil(total, limit)
        IN  /\ \A page \in 1..MaxLimit :
                \A r \in Pages(page, limit, lowStock) :
                  /\ r.pagination.pages = pages
                  /\ r.pagination.total = total
                  /\ \E all \in Listings(matching) :
                        \A i \in 1..limit :
                            IF (page - 1) * limit + i <= total
                            THEN /\ i <= Len(r.products)
                                 /\ r.products[i] = all[(page - 1) * limit + i]
                            ELSE i > Len(r.products)
            /\ \A p1, p2 \in 1..pages :
                  p1 # p2 =>
                      \A r1 \in Pages(p1, limit, lowStock),
                         r2 \in Pages(p2, limit, lowStock) :
                          Range(r1.products) \cap Range(r2.products) = {}

\* the endpoints the API documentation marks `(Admin only)`
AdminOnlyEndpoints ==
    {<<"POST", "/auth/register">>, <<"DELETE", "/products/:id">>,
     <<"POST", "/categories">>, <<"PUT", "/categories/:id">>,
     <<"DELETE", "/categories/:id">>}

\* in the sequence passed, a comes before b
Before(passed, a, b) ==
    \E i, j \in 1..Len(passed) : i < j /\ passed[i] = a /\ passed[j] = b

\* C25: a request is at the handler of an endpoint documented as admin-only
\* only after auth called next() and then adminOnly did, and at the handler
\* of any other endpoint but POST /auth/login only after auth called next().
C25_HandlersBehindChecks ==
    \A r \in BagToSet(requests) :
        AtHandler(r) =>
            IF <<r.route.method, r.route.path>> \in AdminOnlyEndpoints
            THEN Before(r.passed, "auth", "adminOnly")
            ELSE IF <<r.route.method, r.route.path>> = <<"POST", "/auth/login">>
            THEN TRUE
            ELSE \E i \in 1..Len(r.passed) : r.passed[i] = "auth"

\* a request is at deleteProduct and another one at updateProduct
C25_Witness ==
    \E r1, r2 \in BagToSet(requests) :
        /\ AtHandler(r1) /\ Current(r1) = "deleteProduct"
        /\ r1.passed = <<"auth", "adminOnly">>
        /\ AtHandler(r2) /\ Current(r2) = "updateProduct"

====
